---- MODULE Spec2Model ----
(***************************************************************************)
(* Model of the chapter-processing pipeline of epub_to_audiobook:          *)
(*   audiobook_generator/core/audiobook_generator.py   (run coordinator,   *)
(*       worker pool, process_chapter)                                     *)
(*   audiobook_generator/tts_providers/kokoro_tts_provider.py              *)
(*       (text_to_speech: chunk loop and retry loop)                       *)
(*                                                                         *)
(* Strings whose characters matter (chapter texts) are sequences of        *)
(* one-character strings; other strings are atoms.                         *)
(***************************************************************************)
EXTENDS Integers, Sequences, FiniteSets, TLC

(***************************************************************************)
(* Bounds of the model.                                                    *)
(***************************************************************************)
\* workers of the pool are numbered 1..MaxWorkers; worker_count is drawn from it
MaxWorkers == 2
\* chapter_start is drawn from 0..MaxStart, chapter_end from -2..MaxStart
MaxStart == 4
\* max_chars of text_to_speech, scaled down from 1800 (zh) and 3000 (other)
MaxCharsZh == 1
MaxCharsOther == 2
\* the stub backends of the retry loop fail 0..MaxFails times before their last answer
MaxFails == 13

\* kokoro_tts_provider.py line 20
MAX_RETRIES == 12

Workers == 1..MaxWorkers

(***************************************************************************)
(* Strings.                                                                *)
(***************************************************************************)
Whitespace == {" ", "\n", "\t"}

RECURSIVE lstrip(_)
lstrip(s) == IF s # <<>> /\ Head(s) \in Whitespace THEN lstrip(Tail(s)) ELSE s

RECURSIVE rstrip(_)
rstrip(s) ==
    IF s # <<>> /\ s[Len(s)] \in Whitespace
    THEN rstrip(SubSeq(s, 1, Len(s) - 1))
    ELSE s

\* str.strip()
strip(s) == rstrip(lstrip(s))

\* str.lower() on the atoms the model uses
lower(s) ==
    CASE s = "Y" -> "y"
      [] s = "N" -> "n"
      [] s = "YES" -> "yes"
      [] s = "en-US" -> "en-us"
      [] s = "zh-CN" -> "zh-cn"
      [] OTHER -> s

\* str.startswith("zh") on the language atoms
startswith_zh(s) == s \in {"zh-CN", "zh-cn"}

(***************************************************************************)
(* Inputs: what the book parser returns, the configuration, the user's     *)
(* answer at the prompt.                                                   *)
(***************************************************************************)
Ch(title, text) == [title |-> title, text |-> text]

\* the chapter lists book_parser.get_chapters may return
Books ==
    { <<>>,
      << Ch("Intro", <<"a">>) >>,
      << Ch("Intro", <<"a", "b", "c">>), Ch("Plates", <<" ">>), Ch("End", <<"b", " ">>) >>,
      << Ch("Cover", <<>>), Ch("One", <<" ", "a">>) >>,
      << Ch("One", <<"a">>), Ch("Two", <<"b">>), Ch("One", <<"c">>) >> }

Languages == {"en-US", "zh-CN"}

Answers == {"y", "Y", "n", "yes", ""}

\* voice_name and output_format of a run that names neither: both unset
VoiceNames == {""}
OutputFormats == {""}

Configs ==
    [ chapter_start : 0..MaxStart,
      chapter_end   : -2..MaxStart,
      no_prompt     : BOOLEAN,
      preview       : BOOLEAN,
      output_text   : BOOLEAN,
      worker_count  : Workers,
      language      : Languages,
      voice_name    : VoiceNames,
      output_format : OutputFormats ]

VARIABLES
    book,             \* the chapter list the parser returns
    config,           \* self.config of the coordinator process
    pc,               \* position of run()
    chapters,         \* run(): chapters, after the filter
    cost_requests,    \* arguments of the calls of tts_provider.estimate_cost
    prompts,          \* number of times the prompt was printed
    answer,           \* what input() returned, "none" before
    tasks,            \* run(): tasks
    queue,            \* tasks of the pool no worker has picked up yet
    worker,           \* per worker process: its position in process_chapter
    results,          \* run(): results, in order of completion
    failed_chapters,  \* run(): failed_chapters
    outcome,          \* how run() ended: "running", "returned", "exit0", "interrupted",
                      \* "ValueError", "TaskError"
    files,            \* the output folder: path -> content
    tts_calls,        \* chapter indices text_to_speech was invoked for, in order
    call              \* the retry loop of one chunk, pass by pass (specification SpecTTS)

vars == << book, config, pc, chapters, cost_requests, prompts, answer, tasks,
           queue, worker, results, failed_chapters, outcome, files, tts_calls, call >>

NoTask == [idx |-> 0, title |-> "", text |-> <<>>]
NoError == [kind |-> "none", attempt |-> 0]

(***************************************************************************)
(* KokoroTTSProvider.text_to_speech: the retry loop of one chunk           *)
(* (kokoro_tts_provider.py lines 78-103) against a stub backend that       *)
(* raises a transient error (requests RequestException) `fails` times and  *)
(* then answers `then`: "ok", or "permanent" for any other exception.      *)
(***************************************************************************)
Script(fails, then) == [fails |-> fails, then |-> then]

NoCall ==
    [ script |-> Script(0, "ok"), status |-> "none", retry |-> 0, attempts |-> 0,
      waited |-> 0, waits |-> <<>>, err |-> NoError ]

\* the state at line 78, before the first pass
call_start(script) == [NoCall EXCEPT !.script = script, !.status = "running"]

\* what kokoro.create does at the next attempt
backend_outcome(c) ==
    IF c.attempts < c.script.fails THEN "transient" ELSE c.script.then

\* lines 100-101: the wait after failed attempt retry
backoff(retry) == 2 ^ retry

\* a loop that waits and goes on after every failed attempt
may_retry_always(retry) == TRUE

\* line 100: whether failed attempt retry is followed by another attempt
may_retry(retry) == retry < MAX_RETRIES - 1

\* a handler that retries whatever the backend raised
retryable_any(out) == TRUE

\* line 96: except requests.exceptions.RequestException
retryable(out) == out = "transient"

\* line 78: for retry in range(MAX_RETRIES)
in_range(retry) == retry < MAX_RETRIES

\* lines 78-103: one pass of the loop; status becomes
\*   "ok" at the break of line 95, "raised" when an exception leaves the loop,
\*   "exhausted" if range(MAX_RETRIES) runs out
retry_pass(c) ==
    IF ~in_range(c.retry) THEN [c EXCEPT !.status = "exhausted"]
    ELSE LET out == backend_outcome(c)
             c1 == [c EXCEPT !.attempts = @ + 1]
         IN IF out = "ok" THEN [c1 EXCEPT !.status = "ok"]
            ELSE IF ~retryable(out)
            THEN [c1 EXCEPT !.status = "raised",
                            !.err = [kind |-> out, attempt |-> c.retry]]
            ELSE IF may_retry(c.retry)
            THEN [c1 EXCEPT !.waited = @ + backoff(c.retry),
                            !.waits = Append(@, backoff(c.retry)),
                            !.retry = @ + 1]
            ELSE [c1 EXCEPT !.status = "raised",
                            !.err = [kind |-> out, attempt |-> c.retry]]

\* lines 78-103: the loop, run to its end
RECURSIVE retry_loop(_)
retry_loop(c) == IF c.status # "running" THEN c ELSE retry_loop(retry_pass(c))

\* a worker process that holds no task
Idle ==
    [ pc |-> "idle", task |-> NoTask, lang |-> "", chunks |-> <<>>, i |-> 0,
      segs |-> <<>>, last |-> NoCall, err |-> NoError ]

\* the pipeline before run() is called
InitRun ==
    /\ pc = "init"
    /\ chapters = <<>>
    /\ cost_requests = <<>>
    /\ prompts = 0
    /\ answer = "none"
    /\ tasks = <<>>
    /\ queue = <<>>
    /\ worker = [w \in Workers |-> Idle]
    /\ results = <<>>
    /\ failed_chapters = <<>>
    /\ outcome = "running"
    /\ files = << >>
    /\ tts_calls = <<>>

Init ==
    /\ book \in Books
    /\ config \in Configs
    /\ InitRun
    /\ call = NoCall

(***************************************************************************)
(* run(): the coordinator.                                                 *)
(***************************************************************************)
\* a run that keeps the empty chapters
filter_nothing(chs) == chs

\* line 103: [(title, text) for title, text in chapters if text.strip()]
RECURSIVE filter_chapters(_)
filter_chapters(chs) ==
    IF chs = <<>> THEN <<>>
    ELSE IF strip(Head(chs).text) # <<>>
         THEN <<Head(chs)>> \o filter_chapters(Tail(chs))
         ELSE filter_chapters(Tail(chs))

\* lines 116-117: chapter_end after the resolution of -1
resolved_end(end, len) == IF end = -1 THEN len ELSE end

\* range checks without the comparison of start and end
range_error_no_order(start, end, len) ==
    IF start < 1 \/ start > len THEN "start out of range"
    ELSE IF end < -1 \/ end > len THEN "end out of range"
    ELSE "none"

\* lines 108-121: the error the range checks raise, "none" when they pass
range_error(start, end, len) ==
    IF start < 1 \/ start > len THEN "start out of range"
    ELSE IF end < -1 \/ end > len THEN "end out of range"
    ELSE IF start > resolved_end(end, len) THEN "start larger than end"
    ELSE "none"

\* lines 21-25
RECURSIVE get_total_chars(_)
get_total_chars(chs) ==
    IF chs = <<>> THEN 0 ELSE Len(Head(chs).text) + get_total_chars(Tail(chs))

\* python slice chapters[start - 1 : end]
slice(chs, start, end) == SubSeq(chs, start, IF end > Len(chs) THEN Len(chs) ELSE end)

\* tasks numbered from 1 whatever the start of the range
build_tasks_from_one(chs, start) ==
    [i \in 1..Len(chs) |-> [idx |-> i, title |-> chs[i].title, text |-> chs[i].text]]

\* lines 145-150: enumerate(chapters_to_process, start=chapter_start)
build_tasks(chs, start) ==
    [i \in 1..Len(chs) |->
        [idx |-> start + i - 1, title |-> chs[i].title, text |-> chs[i].text]]

\* kokoro lines 27-28: the constructor fills in the unset voice and format
provider_init(cfg) ==
    [cfg EXCEPT !.voice_name = IF @ = "" THEN "am_michael" ELSE @,
                !.output_format = IF @ = "" THEN "wav" ELSE @]

\* lines 97-121: parser, provider, output folder, chapters, filter, range checks
Validate ==
    /\ pc = "init"
    /\ LET filtered == filter_chapters(book)
           err == range_error(config.chapter_start, config.chapter_end, Len(filtered))
       IN /\ chapters' = filtered
          /\ IF err # "none"
             THEN pc' = "done" /\ outcome' = "ValueError"
             ELSE pc' = "validated" /\ outcome' = outcome
          \* line 117 runs once the first two checks have passed
          /\ IF err \in {"start out of range", "end out of range"}
             THEN config' = provider_init(config)
             ELSE config' = [provider_init(config) EXCEPT !.chapter_end =
                                resolved_end(config.chapter_end, Len(filtered))]
    /\ UNCHANGED << book, cost_requests, prompts, answer, tasks, queue, worker,
                    results, failed_chapters, files, tts_calls, call >>

\* lines 123-133: total characters of the selected range, cost estimate
EstimateCost ==
    /\ pc = "validated"
    /\ cost_requests' = Append(cost_requests,
            get_total_chars(slice(chapters, config.chapter_start, config.chapter_end)))
    /\ pc' = "estimated"
    /\ UNCHANGED << book, config, chapters, prompts, answer, tasks, queue, worker,
                    results, failed_chapters, outcome, files, tts_calls, call >>

\* a prompt that goes on unless the answer is "n"
approved_unless_no(a) == lower(a) # "n"

\* lines 13-18: confirm_conversion() returns iff answer.lower() == "y"
approved(a) == lower(a) = "y"

\* lines 135-141: the prompt, or its skip
Confirm ==
    /\ pc = "estimated"
    /\ IF config.no_prompt \/ config.preview
       THEN /\ pc' = "confirmed"
            /\ UNCHANGED << prompts, answer, outcome >>
       ELSE \E a \in Answers :
            /\ prompts' = prompts + 1
            /\ answer' = a
            /\ IF approved(a)
               THEN pc' = "confirmed" /\ outcome' = outcome
               ELSE pc' = "done" /\ outcome' = "exit0"
    /\ UNCHANGED << book, config, chapters, cost_requests, tasks, queue, worker,
                    results, failed_chapters, files, tts_calls, call >>

\* lines 143-162: tasks, failed_chapters = [], the pool, imap_unordered(tasks)
Dispatch ==
    /\ pc = "confirmed"
    /\ tasks' = build_tasks(slice(chapters, config.chapter_start, config.chapter_end),
                            config.chapter_start)
    /\ queue' = tasks'
    /\ failed_chapters' = <<>>
    /\ pc' = "dispatched"
    /\ UNCHANGED << book, config, chapters, cost_requests, prompts, answer, worker,
                    results, outcome, files, tts_calls, call >>

\* line 167: chapters_to_process[idx - chapter_start][0]
chapter_title(chs, idx, start) == chs[idx - start + 1].title

\* failed chapters whose title is looked up at the position of arrival
collect_failed_by_arrival(res, chs, start) ==
    LET F[n \in 0..Len(res)] ==
            IF n = 0 THEN <<>>
            ELSE IF ~res[n].success
                 THEN Append(F[n - 1], [idx |-> res[n].idx, title |-> chs[n].title])
                 ELSE F[n - 1]
    IN F[Len(res)]

\* lines 165-168: the failed chapters of a result list
RECURSIVE collect_failed(_, _, _)
collect_failed(res, chs, start) ==
    IF res = <<>> THEN <<>>
    ELSE IF ~Head(res).success
         THEN << [idx |-> Head(res).idx,
                  title |-> chapter_title(chs, Head(res).idx, start)] >>
              \o collect_failed(Tail(res), chs, start)
         ELSE collect_failed(Tail(res), chs, start)

\* a dispatcher that returns whatever it has
all_collected_at_once(res, tsk) == TRUE

\* line 162: list() drains the iterator, which ends after one result per task
all_collected(res, tsk) == Len(res) = Len(tsk)

\* lines 162-168: list(imap_unordered) returns once every task has its result
Collect ==
    /\ pc = "dispatched"
    /\ all_collected(results, tasks)
    /\ failed_chapters' = collect_failed(results,
            slice(chapters, config.chapter_start, config.chapter_end),
            config.chapter_start)
    /\ pc' = "collected"
    /\ UNCHANGED << book, config, chapters, cost_requests, prompts, answer, tasks,
                    queue, worker, results, outcome, files, tts_calls, call >>

\* a summary that raises when a chapter failed
report_outcome_strict(failed) == IF failed # <<>> THEN "ConversionError" ELSE "returned"

\* lines 170-176: the summary is logged, with or without failed chapters
report_outcome(failed) == "returned"

\* lines 170-176: the summary; run() returns
Report ==
    /\ pc = "collected"
    /\ pc' = "reported"
    /\ outcome' = report_outcome(failed_chapters)
    /\ UNCHANGED << book, config, chapters, cost_requests, prompts, answer, tasks,
                    queue, worker, results, failed_chapters, files, tts_calls, call >>

(***************************************************************************)
(* The worker processes: process_chapter_wrapper, process_chapter and      *)
(* KokoroTTSProvider.text_to_speech.                                       *)
(***************************************************************************)
\* kokoro_tts_provider.py line 54
max_chars(language) == IF startswith_zh(language) THEN MaxCharsZh ELSE MaxCharsOther

\* core/utils.split_text: consecutive pieces of at most max characters
RECURSIVE split_text(_, _)
split_text(text, max) ==
    IF text = <<>> THEN <<>>
    ELSE IF Len(text) <= max THEN << text >>
    ELSE << SubSeq(text, 1, max) >> \o split_text(SubSeq(text, max + 1, Len(text)), max)

\* kokoro_tts_provider.py lines 113-131, for the default output_format "wav"
get_output_file_extension == "wav"

\* the decimal digits of n
RECURSIVE digits(_)
digits(n) == IF n < 10 THEN << n >> ELSE Append(digits(n \div 10), n % 10)

\* the format {idx:04d}: the digits, with zeros in front up to four places
RECURSIVE zfill(_, _)
zfill(ds, width) == IF Len(ds) >= width THEN ds ELSE zfill(<< 0 >> \o ds, width)

\* file names that leave the chapter index out
output_path_by_title(idx, title, ext) == [num |-> << >>, title |-> title, ext |-> ext]

\* lines 65 and 74-77: f"{idx:04d}_{title}.{ext}" in the output folder
output_path(idx, title, ext) ==
    [num |-> zfill(digits(idx), 4), title |-> title, ext |-> ext]

\* a file of the output folder: the task that wrote it, what it holds, and how
\* many times set_audio_tags was applied to it
File(by, data) == [by |-> by, data |-> data, tags |-> 0]

\* the stub backends the workers meet: the number of transient failures
FailCounts == {0, MAX_RETRIES - 1, MAX_RETRIES}
Scripts == { Script(k, t) : k \in FailCounts, t \in {"ok", "permanent"} }

\* kokoro lines 78-103: how the retry loop ends against each of them
finished_call == [sc \in Scripts |-> retry_loop(call_start(sc))]

\* a wrapper that hands back only the results of converted chapters
deliver_converted_only(res, r) == IF r.success THEN Append(res, r) ELSE res

\* lines 93 and 162: the pair the wrapper returns joins the results
deliver(res, r) == Append(res, r)

\* process_chapter returns: the pair (idx, success) reaches the result list
Return(w, success) ==
    /\ results' = deliver(results, [idx |-> worker[w].task.idx, success |-> success])
    /\ worker' = [worker EXCEPT ![w] = Idle]

\* a pool that leaves a task in the queue after handing it out
rest_with_head(q) == q

\* line 162: the pool hands each element of tasks out once
rest(q) == Tail(q)

\* the pool hands the next task of the queue to an idle worker (lines 156-162, 90-93)
PickUp(w) ==
    /\ pc = "dispatched"
    /\ w <= config.worker_count
    /\ worker[w].pc = "idle"
    /\ queue # <<>>
    /\ worker' = [worker EXCEPT ![w] =
            [Idle EXCEPT !.pc = "provider", !.task = Head(queue),
                         !.lang = config.language]]
    /\ queue' = rest(queue)
    /\ UNCHANGED << book, config, pc, chapters, cost_requests, prompts, answer, tasks,
                    results, failed_chapters, outcome, files, tts_calls, call >>

\* line 61: get_tts_provider(self.config), which may raise
CreateProvider(w) ==
    /\ worker[w].pc = "provider"
    /\ \E ok \in BOOLEAN :
        worker' = [worker EXCEPT ![w] =
            IF ok THEN [@ EXCEPT !.pc = "text"]
            ELSE [@ EXCEPT !.pc = "raised",
                           !.err = [kind |-> "provider", attempt |-> 0]]]
    /\ UNCHANGED << book, config, pc, chapters, cost_requests, prompts, answer, tasks,
                    queue, results, failed_chapters, outcome, files, tts_calls, call >>

\* lines 63-67: the chapter text file, when output_text is set; the write may raise
WriteText(w) ==
    /\ worker[w].pc = "text"
    /\ IF config.output_text
       THEN \E ok \in BOOLEAN :
            IF ok
            THEN /\ files' = (output_path(worker[w].task.idx, worker[w].task.title, "txt")
                                :> File(worker[w].task.idx, worker[w].task.text)) @@ files
                 /\ worker' = [worker EXCEPT ![w].pc = "synth"]
            ELSE /\ files' = files
                 /\ worker' = [worker EXCEPT ![w].pc = "raised",
                                  ![w].err = [kind |-> "io", attempt |-> 0]]
       ELSE /\ files' = files
            /\ worker' = [worker EXCEPT ![w].pc = "synth"]
    /\ UNCHANGED << book, config, pc, chapters, cost_requests, prompts, answer, tasks,
                    queue, results, failed_chapters, outcome, tts_calls, call >>

\* a chapter processing that ignores the preview flag
preview_off(cfg) == FALSE

\* line 70: if self.config.preview
preview_mode(cfg) == cfg.preview

\* a handler that catches the errors of the backend call only
caught_backend_only(kind) == kind \in {"transient", "permanent"}

\* a handler around the set-up of a chapter but not around text_to_speech
caught_setup_only(kind) == kind \in {"provider", "io"}

\* line 86: except Exception, for the errors a chapter can raise
caught(kind) == kind \in {"provider", "io", "transient", "permanent"}

\* lines 69-81 and kokoro lines 54-59: preview returns True, otherwise
\* text_to_speech is entered and splits the text
Synthesize(w) ==
    /\ worker[w].pc = "synth"
    /\ IF preview_mode(config)
       THEN /\ Return(w, TRUE)
            /\ tts_calls' = tts_calls
       ELSE /\ tts_calls' = Append(tts_calls, worker[w].task.idx)
            /\ results' = results
            /\ LET chunks == split_text(worker[w].task.text, max_chars(worker[w].lang))
               IN worker' = [worker EXCEPT ![w].chunks = chunks,
                                 ![w].i = IF chunks = <<>> THEN 0 ELSE 1,
                                 ![w].pc = IF chunks = <<>> THEN "tags" ELSE "attempt"]
    /\ UNCHANGED << book, config, pc, chapters, cost_requests, prompts, answer, tasks,
                    queue, failed_chapters, outcome, files, call >>

\* a provider that falls back to the default language every time
normalized_to_default(lang) == "en-us"

\* kokoro lines 83-88: self.config.language before the backend call
normalized(lang) == IF lang = "" THEN "en-us" ELSE lower(lang)

\* kokoro lines 61-103: chunk i is sent to the backend, the retry loop runs to its end
Attempt(w) ==
    /\ worker[w].pc = "attempt"
    /\ \E script \in Scripts :
        LET s == worker[w]
            c == finished_call[script]
            \* lines 83-88
            s1 == [s EXCEPT !.last = c,
                            !.lang = normalized(s.lang)]
        IN worker' = [worker EXCEPT ![w] =
            IF c.status = "raised"
            THEN [s1 EXCEPT !.pc = "raised", !.err = c.err]
            ELSE IF c.status = "ok"
            THEN [s1 EXCEPT !.segs = Append(@, s.chunks[s.i]), !.pc = "chunk_done"]
            ELSE [s1 EXCEPT !.pc = "chunk_done"]]
    /\ UNCHANGED << book, config, pc, chapters, cost_requests, prompts, answer, tasks,
                    queue, results, failed_chapters, outcome, files, tts_calls, call >>

\* a file that is written after the last chunk only
write_after_last(i, n) == i = n

\* kokoro lines 105-106 belong to the body of the chunk loop: chunk i of n
write_now(i, n) == TRUE

\* kokoro lines 104-106 and 61: the audio file is written, the next chunk starts
WriteAudio(w) ==
    /\ worker[w].pc = "chunk_done"
    /\ LET s == worker[w]
       IN /\ files' = IF write_now(s.i, Len(s.chunks)) /\ s.segs # <<>>
                      THEN (output_path(s.task.idx, s.task.title, get_output_file_extension)
                                :> File(s.task.idx, s.segs)) @@ files
                      ELSE files
          /\ worker' = [worker EXCEPT ![w] =
                IF s.i < Len(s.chunks)
                THEN [s EXCEPT !.i = @ + 1, !.last = NoCall, !.pc = "attempt"]
                ELSE [s EXCEPT !.last = NoCall, !.pc = "tags"]]
    /\ UNCHANGED << book, config, pc, chapters, cost_requests, prompts, answer, tasks,
                    queue, results, failed_chapters, outcome, tts_calls, call >>

\* kokoro line 108 and lines 83-85: set_audio_tags, process_chapter returns True
SetTags(w) ==
    /\ worker[w].pc = "tags"
    /\ LET path == output_path(worker[w].task.idx, worker[w].task.title,
                               get_output_file_extension)
       IN files' = IF path \in DOMAIN files
                   THEN [files EXCEPT ![path].tags = @ + 1]
                   ELSE files
    /\ Return(w, TRUE)
    /\ UNCHANGED << book, config, pc, chapters, cost_requests, prompts, answer, tasks,
                    queue, failed_chapters, outcome, tts_calls, call >>

\* a handler that deletes the audio file of the chapter that failed
remove_partial(fs, path) == [q \in DOMAIN fs \ {path} |-> fs[q]]

\* lines 86-88: the handler logs and returns False; the output folder stays as it is
keep_partial(fs, path) == fs

\* lines 86-88: except Exception: return False.  An exception the handler did
\* not catch would reach list(imap_unordered(...)) in run(): run() raises and
\* the with block terminates the pool.
HandleError(w) ==
    /\ worker[w].pc = "raised"
    /\ IF caught(worker[w].err.kind)
       THEN /\ Return(w, FALSE)
            /\ files' = keep_partial(files,
                    output_path(worker[w].task.idx, worker[w].task.title,
                                get_output_file_extension))
            /\ UNCHANGED << pc, outcome, queue >>
       ELSE /\ pc' = "done"
            /\ outcome' = "TaskError"
            /\ queue' = <<>>
            /\ worker' = [v \in Workers |-> Idle]
            /\ results' = results
            /\ files' = files
    /\ UNCHANGED << book, config, chapters, cost_requests, prompts, answer, tasks,
                    failed_chapters, tts_calls, call >>

Next ==
    \/ Validate
    \/ EstimateCost
    \/ Confirm
    \/ Dispatch
    \/ Collect
    \/ Report
    \/ \E w \in Workers :
        \/ PickUp(w)
        \/ CreateProvider(w)
        \/ WriteText(w)
        \/ Synthesize(w)
        \/ Attempt(w)
        \/ WriteAudio(w)
        \/ SetTags(w)
        \/ HandleError(w)

Spec == Init /\ [][Next]_vars

(***************************************************************************)
(* The scheduling: the coordinator process and every worker process of the *)
(* pool run on; none is held back for ever while it can take a step.       *)
(***************************************************************************)
Coordinator == Validate \/ EstimateCost \/ Confirm \/ Dispatch \/ Collect \/ Report

WorkerProcess(w) ==
    \/ PickUp(w) \/ CreateProvider(w) \/ WriteText(w) \/ Synthesize(w)
    \/ Attempt(w) \/ WriteAudio(w) \/ SetTags(w) \/ HandleError(w)

FairSpec ==
    /\ Spec
    /\ WF_vars(Coordinator)
    /\ \A w \in Workers : WF_vars(WorkerProcess(w))

(***************************************************************************)
(* The user interrupt: KeyboardInterrupt is raised in run() (lines 95-180).*)
(***************************************************************************)
\* a pool whose processes are left running when the with block is left
terminate_nobody(wk) == wk

\* lines 156-160: leaving the with block calls pool.terminate(), which stops
\* every worker process where it stands; the task it held stays on record
terminate(wk) == [w \in Workers |-> [Idle EXCEPT !.pc = "killed", !.task = wk[w].task]]

\* the exit code of the process for each way run() ends: a normal return,
\* exit(0) of line 18 and exit() of line 180 give 0, an exception that leaves
\* run() gives 1
exit_code(out) == IF out \in {"returned", "exit0", "interrupted"} THEN 0 ELSE 1

\* lines 178-180: KeyboardInterrupt anywhere in the try block; inside the with
\* block (lines 156-168) the pool is terminated on the way out
Interrupt ==
    /\ pc \in {"init", "validated", "estimated", "confirmed", "dispatched", "collected"}
    /\ pc' = "done"
    /\ outcome' = "interrupted"
    /\ IF pc = "dispatched"
       THEN worker' = terminate(worker) /\ queue' = <<>>
       ELSE UNCHANGED << worker, queue >>
    /\ UNCHANGED << book, config, chapters, cost_requests, prompts, answer, tasks,
                    results, failed_chapters, files, tts_calls, call >>

NextInt == Next \/ Interrupt

SpecInt == Init /\ [][NextInt]_vars

(***************************************************************************)
(* Properties.                                                             *)
(***************************************************************************)
Busy == { w \in Workers : worker[w].pc # "idle" }
ResultIdx == { results[i].idx : i \in 1..Len(results) }
TaskIdx == { tasks[i].idx : i \in 1..Len(tasks) }
QueueIdx == { queue[i].idx : i \in 1..Len(queue) }
BusyIdx == { worker[w].task.idx : w \in Busy }

\* a text with a character that is not whitespace
NonBlank(text) == \E j \in 1..Len(text) : text[j] \notin Whitespace

\* the number of chapters of the book that survive the filter
FilteredLen == Cardinality({ i \in 1..Len(book) : NonBlank(book[i].text) })

\* the rejected ranges, for a chapter list of length len
RangeInvalid(start, end, len) ==
    \/ start < 1
    \/ start > len
    \/ end < -1
    \/ end > len
    \/ start > (IF end = -1 THEN len ELSE end)

\* the pool has nothing left to do
PoolDrained == pc = "dispatched" /\ queue = <<>> /\ Busy = {}

\* C1: result completeness.  The collected results hold one (index, success)
\* pair per submitted task: no index twice, none that was not submitted, and
\* once the pool has nothing left to do (and whenever run() has collected
\* the list) exactly the N submitted indices.
C1_ResultCompleteness ==
    /\ \A i, j \in 1..Len(tasks) : tasks[i].idx = tasks[j].idx => i = j
    /\ \A i, j \in 1..Len(results) : results[i].idx = results[j].idx => i = j
    /\ ResultIdx \subseteq TaskIdx
    /\ (PoolDrained \/ pc \in {"collected", "reported"}) =>
            /\ Len(results) = Len(tasks)
            /\ ResultIdx = TaskIdx

\* three tasks on two workers, failures and successes mixed, the first
\* result is not the first task's
C1_Witness ==
    /\ pc = "collected"
    /\ Len(tasks) = 3
    /\ config.worker_count = 2
    /\ results[1].idx # tasks[1].idx
    /\ \E i, j \in 1..3 : results[i].success /\ ~results[j].success

\* one step of some worker process
WorkerStep ==
    \E w \in Workers :
        \/ PickUp(w) \/ CreateProvider(w) \/ WriteText(w) \/ Synthesize(w)
        \/ Attempt(w) \/ WriteAudio(w) \/ SetTags(w) \/ HandleError(w)

\* every submitted task is in the queue, in a worker or in the results,
\* the pool is alive and can go on while a result is missing
C2_Inv ==
    /\ outcome # "TaskError"
    /\ pc = "dispatched" =>
        /\ Len(queue) + Cardinality(Busy) + Len(results) = Len(tasks)
        /\ QueueIdx \cup BusyIdx \cup ResultIdx = TaskIdx
        /\ Len(results) < Len(tasks) => ENABLED WorkerStep

\* a raised error becomes the result (idx, False) of the task that raised
\* it and touches nothing else; every result is the one of the task a
\* worker held, False only if that task raised
C2_Step ==
    /\ \A w \in Workers :
        (worker[w].pc = "raised" /\ worker'[w] # worker[w]) =>
            /\ results' = Append(results, [idx |-> worker[w].task.idx, success |-> FALSE])
            /\ pc' = pc /\ outcome' = outcome /\ queue' = queue
            /\ \A v \in Workers \ {w} : worker'[v] = worker[v]
    /\ results' # results =>
        \E w \in Busy :
            /\ results' = Append(results, [idx |-> worker[w].task.idx,
                                           success |-> worker[w].pc # "raised"])
            /\ \A v \in Workers \ {w} : worker'[v] = worker[v]

\* C2: isolation.  An error raised while a chapter is processed (provider
\* creation, text file, text_to_speech) becomes success = false for that
\* task only; the pool is not terminated, no other task is lost or
\* disturbed, and the other tasks report their own results.
C2_Isolation == [] C2_Inv /\ [][C2_Step]_vars

\* a chapter failed, a chapter picked up later was converted after it and a
\* third is still being processed
C2_Witness ==
    /\ pc = "dispatched"
    /\ Len(results) = 2
    /\ ~results[1].success /\ results[2].success
    /\ results[1].idx < results[2].idx
    /\ \E w \in Workers : worker[w].pc = "attempt"

\* C3: range validation is applied to the filtered chapter list: the run is
\* rejected iff start < 1, start > len, end < -1, end > len or start > end
\* (end = -1 read as len); otherwise it is accepted and end = -1 becomes len.
C3_RangeValidation ==
    [][ pc = "init" =>
          /\ Len(chapters') = FilteredLen
          /\ (outcome' = "ValueError") <=>
                RangeInvalid(config.chapter_start, config.chapter_end, FilteredLen)
          /\ outcome' = "ValueError" => pc' = "done"
          /\ outcome' # "ValueError" =>
                /\ pc' = "validated"
                /\ config'.chapter_start = config.chapter_start
                /\ config'.chapter_end =
                      IF config.chapter_end = -1 THEN FilteredLen ELSE config.chapter_end
      ]_vars

\* a start within the parser's list but beyond the filtered list is rejected
C3_Witness ==
    /\ outcome = "ValueError"
    /\ config.chapter_start >= 1
    /\ config.chapter_start <= Len(book)
    /\ config.chapter_start > Len(chapters)
    /\ config.chapter_end = -1

\* C4: a rejected range aborts the run before any work: no cost estimate, no
\* prompt, no task built or dispatched, no file written, and the error
\* leaves run().
C4_AbortBeforeWork ==
    (pc # "init" /\ RangeInvalid(config.chapter_start, config.chapter_end, FilteredLen)) =>
        /\ pc = "done"
        /\ outcome = "ValueError"
        /\ cost_requests = <<>>
        /\ prompts = 0 /\ answer = "none"
        /\ tasks = <<>> /\ queue = <<>> /\ results = <<>> /\ failed_chapters = <<>>
        /\ Busy = {}
        /\ DOMAIN files = {}
        /\ tts_calls = <<>>

\* start larger than end, both within the list
C4_Witness ==
    /\ outcome = "ValueError"
    /\ Len(chapters) = 3
    /\ config.chapter_start = 3
    /\ config.chapter_end = 2

Min(a, b) == IF a < b THEN a ELSE b

\* 2^0 + ... + 2^(n-1)
RECURSIVE SumPow2(_)
SumPow2(n) == IF n = 0 THEN 0 ELSE 2 ^ (n - 1) + SumPow2(n - 1)

\* << 2^0, ..., 2^(n-1) >>
PowSeq(n) == [i \in 1..n |-> 2 ^ (i - 1)]

\* the retry bound with the total wait over the first n failed attempts,
\* for a backend that fails k = call.script.fails times and then succeeds
RetryBound(n) ==
    call.script.then = "ok" =>
        /\ call.waits = PowSeq(Len(call.waits))
        /\ call.status # "running" =>
            /\ call.status = "ok" <=> call.script.fails < MAX_RETRIES
            /\ call.status = "ok" => call.attempts = call.script.fails + 1
            /\ call.waits = PowSeq(n)
            /\ call.waited = SumPow2(n)
            /\ call.script.fails >= MAX_RETRIES =>
                /\ call.attempts = MAX_RETRIES
                /\ call.status = "raised"
                /\ call.err = [kind |-> "transient", attempt |-> MAX_RETRIES - 1]

\* C5 as stated: the total wait is the sum of 2^i for i in [0,k), for every k.
C5_Original == RetryBound(call.script.fails)

\* C5: retry bound.  Against a backend that fails k times and then succeeds
\* the call succeeds iff k < MAX_RETRIES; the j-th wait is 2^(j-1); the total
\* wait is the sum of 2^i for i in [0, min(k, MAX_RETRIES - 1)): the last of
\* MAX_RETRIES failed attempts is followed by no wait; for k >= MAX_RETRIES
\* exactly MAX_RETRIES attempts are made and the last error is re-raised.
C5_RetryBound == RetryBound(Min(call.script.fails, MAX_RETRIES - 1))

\* a backend that fails more than MAX_RETRIES times: 12 attempts, 11 waits
C5_Witness ==
    /\ call.status = "raised"
    /\ call.script = Script(MAX_RETRIES + 1, "ok")
    /\ call.attempts = MAX_RETRIES
    /\ call.waited = 2047

\* the retry loop a worker has just left met a non-transient error
MetPermanent(c) ==
    c.status # "none" /\ c.script.then = "permanent" /\ c.script.fails < MAX_RETRIES

C6_Inv ==
    \A w \in Workers :
        LET s == worker[w]
            c == s.last
        IN /\ MetPermanent(c) =>
                /\ s.pc = "raised"
                /\ s.err = [kind |-> "permanent", attempt |-> c.script.fails]
                /\ c.attempts = c.script.fails + 1
                /\ c.waits = PowSeq(c.script.fails)
                /\ Len(s.segs) = s.i - 1
           /\ (s.pc = "raised" /\ s.err.kind = "transient") =>
                /\ c.attempts = MAX_RETRIES
                /\ c.script.fails >= MAX_RETRIES

C6_Step ==
    \A w \in Workers :
        (/\ worker[w].pc = "raised"
         /\ worker[w].err.kind \in {"permanent", "transient"}
         /\ worker'[w] # worker[w]) =>
            results' = Append(results, [idx |-> worker[w].task.idx, success |-> FALSE])

\* C6: a non-transient error of the backend call is not retried: the attempt
\* that met it is the last, no wait follows it, it leaves text_to_speech and
\* the chapter is reported with success = false; a transient error fails a
\* chapter only as the MAX_RETRIES-th failed attempt on one chunk.
C6_NoRetryOfPermanent == [] C6_Inv /\ [][C6_Step]_vars

\* a non-transient error on the second chunk, after 11 transient ones
C6_Witness ==
    \E w \in Workers :
        /\ worker[w].pc = "raised"
        /\ worker[w].i = 2
        /\ worker[w].err = [kind |-> "permanent", attempt |-> MAX_RETRIES - 1]

\* the positions of the book's chapters that survive the filter
NonBlankPos == { i \in 1..Len(book) : NonBlank(book[i].text) }

\* the chapter number of book[i]: its rank among the non-empty chapters
Rank(i) == Cardinality({ j \in NonBlankPos : j <= i })

\* C7: one task per chapter of the selected range [start, end], in order;
\* the index of a task is the 1-based number of its chapter in the chapter
\* list (the non-empty chapters of the book), not its position in the range.
C7_TaskPerChapter ==
    /\ pc # "init" =>
        /\ Len(chapters) = Cardinality(NonBlankPos)
        /\ \A i \in NonBlankPos : chapters[Rank(i)] = book[i]
    /\ pc \in {"dispatched", "collected", "reported"} =>
        /\ Len(tasks) = config.chapter_end - config.chapter_start + 1
        /\ TaskIdx = config.chapter_start..config.chapter_end
        /\ \A i \in 1..Len(tasks) :
            /\ tasks[i].idx = config.chapter_start + i - 1
            /\ tasks[i].title = chapters[tasks[i].idx].title
            /\ tasks[i].text = chapters[tasks[i].idx].text
    /\ pc \in {"init", "validated", "estimated", "confirmed", "done"} => tasks = <<>>

\* a range that starts at the second of three chapters
C7_Witness ==
    /\ pc = "dispatched"
    /\ Len(chapters) = 3
    /\ config.chapter_start = 2
    /\ Len(tasks) = 2
    /\ tasks[1].idx = 2 /\ tasks[2].idx = 3

\* the answers that approve
Approval == answer \in {"y", "Y"}

\* C8: confirmation gate.  Tasks are dispatched only with no_prompt, with
\* preview or after an approving answer; with either flag the prompt is not
\* shown; after any other answer the run ends with exit code 0 and no task.
C8_ConfirmationGate ==
    /\ (pc \in {"dispatched", "collected", "reported"} \/ tasks # <<>>
            \/ Busy # {} \/ results # <<>>) =>
        (config.no_prompt \/ config.preview \/ Approval)
    /\ (config.no_prompt \/ config.preview) => (prompts = 0 /\ answer = "none")
    /\ prompts <= 1
    /\ prompts = 1 <=> answer # "none"
    /\ (answer # "none" /\ ~Approval) =>
        /\ pc = "done" /\ outcome = "exit0"
        /\ tasks = <<>> /\ queue = <<>> /\ results = <<>> /\ Busy = {}
        /\ tts_calls = <<>> /\ DOMAIN files = {}

\* the user answered "yes", which is not "y": clean exit after the estimate
C8_Witness ==
    /\ outcome = "exit0"
    /\ answer = "yes"
    /\ cost_requests # <<>>

\* no text_to_speech, no audio file, no worker inside text_to_speech
NoSynthesis ==
    /\ tts_calls = <<>>
    /\ \A p \in DOMAIN files : p.ext = "txt"
    /\ \A w \in Workers : worker[w].pc \notin {"attempt", "chunk_done", "tags"}

\* C9 as stated: in preview mode no task invokes text_to_speech, no audio file
\* is written, and every task reports success.
C9_Original ==
    config.preview =>
        /\ NoSynthesis
        /\ \A i \in 1..Len(results) : results[i].success

C9_Step ==
    config.preview =>
        \A w \in Workers :
            /\ (worker[w].pc = "synth" /\ worker'[w] # worker[w]) =>
                    results' = Append(results, [idx |-> worker[w].task.idx, success |-> TRUE])
            /\ worker[w].pc = "raised" => worker[w].err.kind \in {"provider", "io"}

\* C9: preview mode.  No task invokes text_to_speech and no audio file is
\* written; a task reports success unless its provider creation or its
\* text-file write raised, and then it reports success = false.
C9_Preview == [] (config.preview => NoSynthesis) /\ [][C9_Step]_vars

\* a preview run with text files: one chapter failed, one succeeded
C9_Witness ==
    /\ config.preview /\ config.output_text
    /\ pc = "collected"
    /\ DOMAIN files # {}
    /\ \E i, j \in 1..Len(results) : results[i].success /\ ~results[j].success

FailedIdx == { failed_chapters[i].idx : i \in 1..Len(failed_chapters) }

\* C10: failure report.  Once the results are collected, the failed chapters
\* are exactly the indices with success = false, each once, each with the
\* title of the task (and chapter) that carries the index.
C10_FailureReport ==
    /\ pc \in {"collected", "reported"} =>
        /\ FailedIdx = { results[i].idx : i \in { j \in 1..Len(results) : ~results[j].success } }
        /\ Len(failed_chapters) = Cardinality(FailedIdx)
        /\ \A i \in 1..Len(failed_chapters) :
            /\ \E t \in 1..Len(tasks) :
                /\ tasks[t].idx = failed_chapters[i].idx
                /\ tasks[t].title = failed_chapters[i].title
            /\ chapters[failed_chapters[i].idx].title = failed_chapters[i].title
    /\ pc \notin {"collected", "reported"} => failed_chapters = <<>>

\* a failed result that arrived at a position whose task has another title
C10_Witness ==
    /\ pc = "reported"
    /\ config.chapter_start = 2
    /\ \E i \in 1..Len(results) :
        /\ ~results[i].success
        /\ results[i].idx # tasks[i].idx
        /\ tasks[i].title # chapters[results[i].idx].title

\* C11: a run with failed chapters still completes.  Under fair scheduling
\* every run that has dispatched its tasks reaches the reported state, and
\* there run() has returned normally, exit code 0, whatever the number of
\* failed chapters, all of them included: no chapter's failure ends the run
\* with an error on the way.
C11_RunCompletes ==
    (pc = "dispatched") ~>
        (pc = "reported" /\ outcome = "returned" /\ exit_code(outcome) = 0)

\* a run of two chapters or more has reported, and every chapter failed
C11_Witness ==
    /\ pc = "reported"
    /\ Len(results) >= 2
    /\ \A i \in 1..Len(results) : ~results[i].success
    /\ Len(failed_chapters) = Len(tasks)
    /\ exit_code(outcome) = 0

\* the claim as written: when the run has ended by an interrupt, no worker was
\* stopped while it held a task (every task in flight ran to its result)
C12_Original ==
    outcome = "interrupted" => \A w \in Workers : worker[w].task = NoTask

\* the interrupt step while the pool works: the results and the output
\* folder stay as they are, the queue is dropped and every worker process is
\* stopped where it stands, the task it holds left without a result
C12_Step ==
    (pc = "dispatched" /\ outcome' = "interrupted") =>
        /\ results' = results
        /\ files' = files
        /\ queue' = <<>>
        /\ \A w \in Workers :
            worker'[w].pc = "killed" /\ worker'[w].task = worker[w].task

\* C12: cancellation.  A user interrupt that arrives while tasks are being
\* processed terminates the pool at once: no task is picked up afterwards
\* and no worker takes another step (nothing at all happens after the
\* interrupt), the tasks in flight are stopped where they stand instead of
\* running to completion, and the run ends aborted: it is done without
\* having reported, and when the pool was stopped at work no list of failed
\* chapters was made.
C12_Cancellation ==
    /\ [](outcome = "interrupted" =>
            /\ pc = "done"
            /\ queue = <<>> \/ \A w \in Workers : worker[w].pc = "idle"
            /\ (\E w \in Workers : worker[w].pc = "killed") => failed_chapters = <<>>)
    /\ [][C12_Step]_vars
    /\ [][outcome # "interrupted"]_vars

\* the interrupt arrived with one result collected and a worker in the middle
\* of a chapter whose audio file holds a part of it: the file stays
C12_Witness ==
    /\ outcome = "interrupted"
    /\ results # <<>>
    /\ \E w \in Workers :
        /\ worker[w].pc = "killed"
        /\ worker[w].task # NoTask
        /\ worker[w].task.idx \notin ResultIdx
        /\ \E p \in DOMAIN files :
            p.ext = "wav" /\ files[p].by = worker[w].task.idx /\ files[p].tags = 0

\* C13: a user interrupt that arrives before any task has been dispatched
\* ends the run with an exit code other than 0.
C13_Original ==
    (outcome = "interrupted" /\ tasks = <<>>) => exit_code(outcome) # 0

\* the order of the steps of run(), and the ways out of it
C14_Order ==
    { <<"init", "validated">>, <<"validated", "estimated">>,
      <<"estimated", "confirmed">>, <<"confirmed", "dispatched">>,
      <<"dispatched", "collected">>, <<"collected", "reported">>,
      <<"init", "done">>, <<"estimated", "done">> }

\* what each step of run() does, and no other step does
C14_Step ==
    /\ pc' # pc => << pc, pc' >> \in C14_Order
    /\ cost_requests' # cost_requests =>
        pc = "validated" /\ pc' = "estimated" /\ Len(cost_requests') = 1
    /\ (prompts' # prompts \/ answer' # answer) =>
        pc = "estimated" /\ prompts' = 1 /\ Len(cost_requests) = 1
    /\ tasks' # tasks => pc = "confirmed" /\ pc' = "dispatched" /\ tasks = <<>>
    /\ failed_chapters' # failed_chapters =>
        pc = "dispatched" /\ pc' = "collected" /\ Len(results) = Len(tasks)
    /\ pc' = "reported" => pc = "collected" /\ Len(results) = Len(tasks)

\* where run() stands tells which steps have been taken, each of them once
C14_Inv ==
    /\ Len(cost_requests) =
         IF pc \in {"init", "validated"} \/ outcome = "ValueError" THEN 0 ELSE 1
    /\ prompts =
         IF \/ pc \in {"init", "validated", "estimated"}
            \/ outcome = "ValueError"
            \/ config.no_prompt
            \/ config.preview
         THEN 0 ELSE 1
    /\ tasks # <<>> <=> pc \in {"dispatched", "collected", "reported"}
    /\ pc \in {"collected", "reported"} => Len(results) = Len(tasks)
    /\ pc \in {"dispatched", "collected", "reported"} =>
        prompts = 0 \/ approved(answer)

\* C14: the steps of the run coordinator happen in the order range
\* validation, cost estimate, confirmation, dispatch, report.  run() moves
\* only along this order or out of it (a rejected range, a declined prompt);
\* the cost estimate is requested once, only after the range was accepted,
\* the prompt is shown at most once, only after the cost estimate, the tasks
\* are dispatched once, only after the confirmation or its skip, and the
\* failed chapters are listed and reported only after one result per task
\* was collected; the reported state is reached with every step taken once.
C14_StepOrder == [] C14_Inv /\ [][C14_Step]_vars

\* a run that asked the user has reported a failed chapter
C14_Witness ==
    /\ pc = "reported"
    /\ prompts = 1
    /\ Len(cost_requests) = 1
    /\ failed_chapters # <<>>
    /\ Len(results) >= 2

\* no task is in two places: waiting, held by a worker, or done; no two
\* workers hold the same task; text_to_speech is entered once per task at most
C15_Inv ==
    /\ Cardinality(QueueIdx) = Len(queue)
    /\ Cardinality(ResultIdx) = Len(results)
    /\ QueueIdx \cap BusyIdx = {}
    /\ QueueIdx \cap ResultIdx = {}
    /\ BusyIdx \cap ResultIdx = {}
    /\ \A w, v \in Busy : worker[w].task.idx = worker[v].task.idx => w = v
    /\ \A i, j \in 1..Len(tts_calls) : tts_calls[i] = tts_calls[j] => i = j
    /\ \A i \in 1..Len(tts_calls) : tts_calls[i] \in BusyIdx \cup ResultIdx

\* a worker changes its task only by taking the head of the queue while it is
\* idle, or by handing in the result of the task it holds; the queue only
\* loses its head; a task that has its result is never queued or held again
C15_Step ==
    /\ \A w \in Workers :
        worker'[w].task # worker[w].task =>
            \/ /\ worker[w].pc = "idle"
               /\ queue # <<>>
               /\ worker'[w].task = Head(queue)
               /\ queue' = Tail(queue)
               /\ results' = results
            \/ /\ worker[w].pc # "idle"
               /\ worker'[w] = Idle
               /\ queue' = queue
               /\ \E ok \in BOOLEAN :
                    results' = Append(results,
                        [idx |-> worker[w].task.idx, success |-> ok])
    /\ queue' # queue =>
        IF queue = <<>> THEN tasks = <<>> /\ queue' = tasks' ELSE queue' = Tail(queue)
    /\ results' # results => \E w \in Workers : worker'[w].task # worker[w].task
    /\ \A i \in 1..Len(results) :
        /\ results[i].idx \notin { queue'[j].idx : j \in 1..Len(queue') }
        /\ \A w \in Workers : worker'[w].task.idx # results[i].idx

\* C15: every submitted task is picked up by exactly one worker and
\* process_chapter runs for it exactly once.  A task is waiting, held by one
\* worker or done, never two of these and never held by two workers; a worker
\* takes a task only when it is idle and gives it up only with its result;
\* and a task that has its result, failed or not, is never queued or picked
\* up again.
C15_ExactlyOnce == [] C15_Inv /\ [][C15_Step]_vars

\* two workers hold different tasks while a third task has already failed
C15_Witness ==
    /\ Cardinality(Busy) = 2
    /\ Cardinality(BusyIdx) = 2
    /\ queue = <<>>
    /\ \E i \in 1..Len(results) : ~results[i].success

\* C16: termination.  With backend calls that return or fail and no user
\* interrupt, under fair scheduling: no retry loop of a chunk makes more than
\* MAX_RETRIES attempts, every run that has dispatched its tasks reaches the
\* reported state with one result per submitted task, no task waiting and no
\* worker busy, and run() is past the dispatcher only when every submitted
\* task has produced its result.
C16_Termination ==
    /\ [](\A w \in Workers : worker[w].last.attempts <= MAX_RETRIES)
    /\ [](pc \in {"collected", "reported"} =>
            ResultIdx = TaskIdx /\ Len(results) = Len(tasks))
    /\ (pc = "dispatched") ~>
            (pc = "reported" /\ ResultIdx = TaskIdx /\ queue = <<>> /\ Busy = {})

\* a run of three tasks is over: one of them gave up after MAX_RETRIES
\* attempts on a chunk, another was converted
C16_Witness ==
    /\ pc = "reported"
    /\ Len(tasks) = 3
    /\ ResultIdx = TaskIdx
    /\ \E i, j \in 1..Len(results) : results[i].success /\ ~results[j].success
    /\ tts_calls # <<>>

\* the tasks of the run, by chapter index
TaskOf(idx) == CHOOSE t \in { tasks[i] : i \in 1..Len(tasks) } : t.idx = idx

\* the paths a task may write: its text file and its audio file
PathsOf(t) ==
    { output_path(t.idx, t.title, "txt"),
      output_path(t.idx, t.title, get_output_file_extension) }

\* the tasks that are dispatched have pairwise disjoint paths; a file that is
\* written again is written by the task that wrote it before
C17_Step ==
    /\ tasks' # tasks =>
        \A i, j \in 1..Len(tasks') :
            i # j => PathsOf(tasks'[i]) \cap PathsOf(tasks'[j]) = {}
    /\ files' # files =>
        \A p \in DOMAIN files' :
            (p \in DOMAIN files /\ files'[p] # files[p]) => files'[p].by = files[p].by

\* C17: no two tasks of one run write to the same output path.  The paths of
\* two different tasks are different, whatever their titles; every file in
\* the output folder is at a path of the task that wrote it, and under every
\* interleaving of the workers no file is overwritten by another task.
C17_DisjointPaths ==
    /\ [](\A p \in DOMAIN files :
            files[p].by \in TaskIdx /\ p \in PathsOf(TaskOf(files[p].by)))
    /\ [][C17_Step]_vars

\* two chapters with the same title have each written a text and an audio file
C17_Witness ==
    \E p, q \in DOMAIN files :
        /\ files[p].by # files[q].by
        /\ p.title = q.title
        /\ p.ext = "wav" /\ q.ext = "wav"
        /\ \E r \in DOMAIN files : r.ext = "txt" /\ files[r].by = files[p].by
        /\ \E w \in Busy : worker[w].task.idx = files[q].by

\* the audio file of the task a worker holds
AudioPath(w) ==
    output_path(worker[w].task.idx, worker[w].task.title, get_output_file_extension)

\* the audio file of worker w holds exactly the first n chunks, untagged;
\* no file while n = 0
HoldsChunks(w, n) ==
    IF n = 0 THEN AudioPath(w) \notin DOMAIN files
    ELSE /\ AudioPath(w) \in DOMAIN files
         /\ files[AudioPath(w)].data = SubSeq(worker[w].chunks, 1, n)
         /\ files[AudioPath(w)].tags = 0
         /\ files[AudioPath(w)].by = worker[w].task.idx

\* text_to_speech at each of its positions: before the call for chunk i the
\* file holds chunks 1..i-1, after the call the segments hold chunks 1..i
\* (one entry per chunk however many attempts it took), after the last
\* write the file holds every chunk
C18_Inv ==
    /\ \A w \in Workers :
        LET s == worker[w] IN
        /\ s.pc = "attempt" =>
            /\ s.i \in 1..Len(s.chunks)
            /\ s.segs = SubSeq(s.chunks, 1, s.i - 1)
            /\ HoldsChunks(w, s.i - 1)
        /\ s.pc = "chunk_done" =>
            /\ s.last.status = "ok"
            /\ s.segs = SubSeq(s.chunks, 1, s.i)
            /\ HoldsChunks(w, s.i - 1)
        /\ s.pc = "tags" =>
            /\ s.chunks = split_text(s.task.text, max_chars(config.language))
            /\ HoldsChunks(w, Len(s.chunks))
    /\ \A p \in DOMAIN files :
        /\ files[p].tags \in {0, 1}
        /\ files[p].tags = 1 =>
            /\ p.ext = get_output_file_extension
            /\ [idx |-> files[p].by, success |-> TRUE] \in
                    { results[i] : i \in 1..Len(results) }
            /\ files[p].data =
                    split_text(TaskOf(files[p].by).text, max_chars(config.language))

\* the write after chunk i puts chunks 1..i into the file; the tags are set
\* by the step that follows the last write and by no other, and they leave
\* the audio as it is
C18_Step ==
    /\ \A w \in Workers :
        (worker[w].pc = "chunk_done" /\ worker'[w] # worker[w]) =>
            /\ files'[AudioPath(w)].data = SubSeq(worker[w].chunks, 1, worker[w].i)
            /\ worker'[w].pc = IF worker[w].i < Len(worker[w].chunks)
                               THEN "attempt" ELSE "tags"
    /\ \A p \in DOMAIN files' :
        (p \in DOMAIN files /\ files'[p].tags # files[p].tags /\ files'[p].tags > 0) =>
            /\ files'[p] = [files[p] EXCEPT !.tags = 1]
            /\ \E w \in Workers :
                worker[w].pc = "tags" /\ AudioPath(w) = p /\ worker'[w] = Idle

\* C18: text_to_speech writes the audio file after every chunk.  After chunk
\* i has been synthesized and written the file holds the audio of chunks
\* 1..i in chunk order, each chunk once even when its call was retried, and
\* the audio tags are set once, after the last chunk was written.
C18_WriteAfterEveryChunk == [] C18_Inv /\ [][C18_Step]_vars

\* the third chunk of a chapter went through after MAX_RETRIES attempts and
\* is about to be written: the file holds the first two chunks
C18_Witness ==
    \E w \in Workers :
        /\ worker[w].pc = "chunk_done"
        /\ worker[w].i = 3
        /\ worker[w].last.attempts = MAX_RETRIES
        /\ HoldsChunks(w, 2)

\* the claim as written: no step changes the book, the chapter list once it
\* is there, a field of the configuration, or the language a worker that
\* keeps its task works with
C19_Original ==
    [][ /\ config' = config
        /\ book' = book
        /\ chapters # <<>> => chapters' = chapters
        /\ \A w \in Workers :
            (worker[w].task # NoTask /\ worker'[w].task = worker[w].task) =>
                worker'[w].lang = worker[w].lang ]_vars

\* the configuration fields no step writes
C19_FixedFields ==
    {"chapter_start", "no_prompt", "preview", "output_text", "worker_count", "language"}

\* what changes, and where: the chapter list is made once, by the filter;
\* the coordinator's configuration changes in the first step of run() only,
\* in voice_name, output_format and chapter_end; a worker starts a task with
\* the coordinator's language and rewrites its own copy at a backend call
C19_Step ==
    /\ book' = book
    /\ chapters' # chapters => pc = "init" /\ chapters = <<>>
    /\ config' # config =>
        /\ pc = "init"
        /\ \A f \in C19_FixedFields : config'[f] = config[f]
        /\ config'.voice_name =
             IF config.voice_name = "" THEN "am_michael" ELSE config.voice_name
        /\ config'.output_format =
             IF config.output_format = "" THEN "wav" ELSE config.output_format
        /\ config'.chapter_end # config.chapter_end =>
             config.chapter_end = -1 /\ config'.chapter_end = Len(chapters')
    /\ \A w \in Workers :
        /\ (worker[w].task = NoTask /\ worker'[w].task # NoTask) =>
              worker'[w].lang = config.language
        /\ (worker[w].task # NoTask /\ worker'[w].task = worker[w].task
              /\ worker'[w].lang # worker[w].lang) =>
              /\ worker[w].pc = "attempt"
              /\ worker'[w].lang =
                   IF worker[w].lang = "" THEN "en-us" ELSE lower(worker[w].lang)
              /\ config' = config

\* C19: what is read-only after the start of run().  The parsed book never
\* changes and the chapter list is made once; the configuration is written
\* in the first step of run() (voice_name and output_format get their
\* defaults, chapter_end = -1 becomes the number of chapters) and never
\* after, and text_to_speech rewrites the language of its own process's
\* copy to lower case at a backend call, which the coordinator's
\* configuration does not see; no other field changes.
C19_ReadOnly == [][C19_Step]_vars

\* a worker has lowered its language while the coordinator, whose
\* chapter_end and voice_name were filled in, still has the one it was given
C19_Witness ==
    /\ pc = "dispatched"
    /\ config.language = "zh-CN"
    /\ config.voice_name = "am_michael"
    /\ config.chapter_end = Len(chapters)
    /\ \E w \in Workers : worker[w].pc = "chunk_done" /\ worker[w].lang = "zh-cn"

\* the audio path of the task with chapter index idx
AudioPathOf(idx) ==
    output_path(idx, TaskOf(idx).title, get_output_file_extension)

\* the chapter indices reported with success = false
FailedResultIdx == { results[i].idx : i \in { j \in 1..Len(results) : ~results[j].success } }

\* when text_to_speech has raised at chunk i the file holds chunks 1..i-1,
\* untagged (no file when i = 1), a transient error being raised only by the
\* last attempt; the audio file of a chapter reported as failed, if there is
\* one, is untagged and holds a proper prefix of the chapter's chunks
C20_Inv ==
    /\ \A w \in Workers :
        (worker[w].pc = "raised" /\ worker[w].err.kind \in {"transient", "permanent"}) =>
            /\ worker[w].i \in 1..Len(worker[w].chunks)
            /\ HoldsChunks(w, worker[w].i - 1)
            /\ worker[w].err.kind = "transient" =>
                  worker[w].last.attempts = MAX_RETRIES
    /\ \A idx \in FailedResultIdx :
        LET p == AudioPathOf(idx)
            full == split_text(TaskOf(idx).text, max_chars(config.language))
        IN p \in DOMAIN files =>
            /\ files[p].tags = 0
            /\ Len(files[p].data) < Len(full)
            /\ files[p].data = SubSeq(full, 1, Len(files[p].data))

\* the step that handles the error reports (idx, False) and leaves the output
\* folder as it is; no step removes a file, and the file of a failed chapter
\* is never touched again
C20_Step ==
    /\ \A w \in Workers :
        (worker[w].pc = "raised" /\ worker'[w] # worker[w]) =>
            /\ files' = files
            /\ results' = Append(results,
                    [idx |-> worker[w].task.idx, success |-> FALSE])
    /\ DOMAIN files \subseteq DOMAIN files'
    /\ \A idx \in FailedResultIdx :
        AudioPathOf(idx) \in DOMAIN files =>
            files'[AudioPathOf(idx)] = files[AudioPathOf(idx)]

\* C20: partial output on failure.  When text_to_speech fails at chunk k of a
\* chapter (an error that is not retried, or the retries used up), the
\* chapter is reported with success = false, its audio tags are never set,
\* and its audio file is left holding chunks 1..k-1, no file when k = 1;
\* nothing removes the partial file or writes to it afterwards.
C20_PartialOutput == [] C20_Inv /\ [][C20_Step]_vars

\* a run has reported two failed chapters: one failed at its third chunk and
\* left a file with two chunks, the other failed at its first and left none
C20_Witness ==
    /\ pc = "reported"
    /\ \E a, b \in FailedResultIdx :
        /\ AudioPathOf(a) \in DOMAIN files
        /\ Len(files[AudioPathOf(a)].data) = 2
        /\ files[AudioPathOf(a)].tags = 0
        /\ AudioPathOf(b) \notin DOMAIN files
        /\ b \in { tts_calls[i] : i \in 1..Len(tts_calls) }

(***************************************************************************)
(* The retry loop pass by pass, for every stub backend.                    *)
(***************************************************************************)
InitTTS ==
    /\ InitRun
    /\ book = <<>>
    /\ config = [ chapter_start |-> 1, chapter_end |-> -1, no_prompt |-> TRUE,
                  preview |-> FALSE, output_text |-> FALSE, worker_count |-> 1,
                  language |-> "en-US", voice_name |-> "", output_format |-> "" ]
    /\ \E k \in 0..MaxFails, t \in {"ok", "permanent"} : call = call_start(Script(k, t))

\* kokoro lines 78-103: one pass
RetryPass ==
    /\ call.status = "running"
    /\ call' = retry_pass(call)
    /\ UNCHANGED << book, config, pc, chapters, cost_requests, prompts, answer, tasks,
                    queue, worker, results, failed_chapters, outcome, files, tts_calls >>

NextTTS == RetryPass

SpecTTS == InitTTS /\ [][NextTTS]_vars
====
